---- MODULE Spec2Model ----
(***************************************************************************)
(* Model of src/server.py (Dx-Pre-Processor): the per-cell validators, the *)
(* case-insensitive column lookup, the two validation plans, the vendor    *)
(* dispatch of preprocess_file, and the upload handler with its shared     *)
(* uploads folder.                                                         *)
(*                                                                         *)
(* A Python str is a sequence of characters; a character is a one-element  *)
(* token ("a", " ", ...); SUP2 is the character U+00B2 (superscript two,   *)
(* byte 0xB2 of ISO-8859-1, the encoding read_csv is called with).         *)
(* A Python value is a record [type, val]: type "str" with its characters, *)
(* or a non-string ("float" for NaN, "int").  A call's outcome is a value  *)
(* or the record Raise(e) for an exception e.                              *)
(***************************************************************************)
EXTENDS Integers, Sequences, FiniteSets, TLC

VARIABLES cell, npieces, vpc, vfn, vout, vout2,
          csv, df, tpc, res, response, res2,
          fs, clock, reqs

vars == <<cell, npieces, vpc, vfn, vout, vout2,
          csv, df, tpc, res, response, res2,
          fs, clock, reqs>>

cellVars == <<cell, npieces, vpc, vfn, vout, vout2>>
tableVars == <<csv, df, tpc, res, response, res2>>
uploadVars == <<fs, clock, reqs>>

----------------------------------------------------------------------------
(* Python values *)

Str(s) == [type |-> "str", val |-> s]
IntVal(s) == [type |-> "int", val |-> s]
FloatVal(s) == [type |-> "float", val |-> s]
NaN == FloatVal(<<"n", "a", "n">>)
Int2000 == IntVal(<<"2", "0", "0", "0">>)
Raise(e) == [type |-> "exc", val |-> <<e>>]
EmptyStr == Str(<<>>)

isinstance_str(x) == x.type = "str"

----------------------------------------------------------------------------
(* Python str methods, as CPython computes them on the characters used *)

SUP2 == "SUP2"
DecimalChars == {"0", "1", "2", "3", "4", "5", "6", "7", "8", "9"}
LowerChars == <<"a", "b", "c", "d", "e", "f", "g", "h", "i", "j", "k", "l", "m",
                "n", "o", "p", "q", "r", "s", "t", "u", "v", "w", "x", "y", "z">>
UpperChars == <<"A", "B", "C", "D", "E", "F", "G", "H", "I", "J", "K", "L", "M",
                "N", "O", "P", "Q", "R", "S", "T", "U", "V", "W", "X", "Y", "Z">>
Range(f) == {f[i] : i \in DOMAIN f}

LowerSet == Range(LowerChars)
UpperSet == Range(UpperChars)
DigitSet == DecimalChars \cup {SUP2}
UpperOf == [c \in LowerSet |-> UpperChars[CHOOSE i \in DOMAIN LowerChars : LowerChars[i] = c]]

\* str.isspace() of one character: what str.strip() removes
char_isspace(c) == c \in {" ", "\t"}
\* str.isdigit() of one character: decimal digits and superscript digits
char_isdigit(c) == c \in DigitSet
\* str.isalpha() of one character
char_isalpha(c) == c \in LowerSet \/ c \in UpperSet
\* str.isalnum() of one character
char_isalnum(c) == char_isalpha(c) \/ char_isdigit(c)

char_upper(c) == IF c \in LowerSet THEN UpperOf[c] ELSE c

upper(s) == [i \in DOMAIN s |-> char_upper(s[i])]

RECURSIVE lstrip(_)
lstrip(s) == IF s # <<>> /\ char_isspace(Head(s)) THEN lstrip(Tail(s)) ELSE s

RECURSIVE rstrip(_)
rstrip(s) ==
  IF s # <<>> /\ char_isspace(s[Len(s)])
    THEN rstrip(SubSeq(s, 1, Len(s) - 1))
    ELSE s

strip(s) == rstrip(lstrip(s))

\* s.isdigit(): non-empty and every character is a digit
isdigit(s) == s # <<>> /\ \A i \in DOMAIN s : char_isdigit(s[i])
\* s.isalnum(): non-empty and every character is alphanumeric
isalnum(s) == s # <<>> /\ \A i \in DOMAIN s : char_isalnum(s[i])

\* s.replace(' ', '')
remove_spaces(s) == SelectSeq(s, LAMBDA c : c # " ")

\* c in s
contains(s, c) == \E i \in DOMAIN s : s[i] = c

\* s.split(','): the segments between commas, at least one
RECURSIVE split_comma(_)
split_comma(s) ==
  IF ~contains(s, ",")
    THEN <<s>>
    ELSE LET k == CHOOSE i \in DOMAIN s :
                    s[i] = "," /\ \A j \in 1..(i - 1) : s[j] # ","
         IN <<SubSeq(s, 1, k - 1)>> \o split_comma(SubSeq(s, k + 1, Len(s)))

----------------------------------------------------------------------------
(* The validators *)

VALID_STATES == { <<"N", "S", "W">>, <<"V", "I", "C">>, <<"Q", "L", "D">>,
                  <<"S", "A">>, <<"W", "A">>, <<"A", "C", "T">>,
                  <<"T", "A", "S">>, <<"N", "T">> }

PHONE_MAX_LEN == 15
EMAIL_MAX_LEN == 130
POSTCODE_LEN == 4

validate_state(state) ==
  IF isinstance_str(state) /\ upper(strip(state.val)) \in VALID_STATES
    THEN Str(upper(strip(state.val)))
    ELSE EmptyStr

validate_postcode(pcode) ==
  IF isinstance_str(pcode) /\ isdigit(strip(pcode.val))
       /\ Len(strip(pcode.val)) = POSTCODE_LEN
    THEN Str(strip(pcode.val))
    ELSE EmptyStr

\* a length test one short of the code's: < instead of <=
validate_phone_strict_len(phone) ==
  IF isinstance_str(phone) /\ Len(strip(phone.val)) < PHONE_MAX_LEN
       /\ isalnum(remove_spaces(strip(phone.val)))
    THEN Str(strip(phone.val))
    ELSE EmptyStr

\* a normaliser whose output its own test rejects: spaces become dashes
validate_phone_dashes(phone) ==
  IF isinstance_str(phone) /\ Len(strip(phone.val)) <= PHONE_MAX_LEN
       /\ isalnum(remove_spaces(strip(phone.val)))
    THEN Str([i \in DOMAIN strip(phone.val) |->
                IF strip(phone.val)[i] = " " THEN "-" ELSE strip(phone.val)[i]])
    ELSE EmptyStr

validate_phone(phone) ==
  IF isinstance_str(phone) /\ Len(strip(phone.val)) <= PHONE_MAX_LEN
       /\ isalnum(remove_spaces(strip(phone.val)))
    THEN Str(strip(phone.val))
    ELSE EmptyStr

\* the isinstance test left out: .split on a non-string raises AttributeError
validate_email_noguard(email) ==
  IF ~isinstance_str(email)
    THEN Raise("AttributeError")
    ELSE LET emails == [i \in DOMAIN split_comma(email.val) |->
                          strip(split_comma(email.val)[i])]
             first_email == emails[1]
         IN IF Len(first_email) <= EMAIL_MAX_LEN /\ contains(first_email, "@")
                 /\ contains(first_email, ".") /\ ~contains(first_email, " ")
              THEN Str(first_email)
              ELSE EmptyStr

\* the whole cell validated instead of its first comma-separated segment
validate_email_whole(email) ==
  IF isinstance_str(email)
    THEN LET first_email == strip(email.val)
         IN IF Len(first_email) <= EMAIL_MAX_LEN /\ contains(first_email, "@")
                 /\ contains(first_email, ".") /\ ~contains(first_email, " ")
              THEN Str(first_email)
              ELSE EmptyStr
    ELSE EmptyStr

validate_email(email) ==
  IF isinstance_str(email)
    THEN LET emails == [i \in DOMAIN split_comma(email.val) |->
                          strip(split_comma(email.val)[i])]
         IN IF emails # <<>>
              THEN LET first_email == emails[1]
                   IN IF Len(first_email) <= EMAIL_MAX_LEN
                           /\ contains(first_email, "@")
                           /\ contains(first_email, ".")
                           /\ ~contains(first_email, " ")
                        THEN Str(first_email)
                        ELSE EmptyStr
              ELSE EmptyStr
    ELSE EmptyStr

\* validate_func(x) for the function object stored in a plan
call_validator(fn, x) ==
  CASE fn = "validate_state" -> validate_state(x)
    [] fn = "validate_postcode" -> validate_postcode(x)
    [] fn = "validate_phone" -> validate_phone(x)
    [] fn = "validate_email" -> validate_email(x)

----------------------------------------------------------------------------
(* Tables: a CSV file is a header of names and rows of field texts; a frame *)
(* (DataFrame) is columns of names and rows of Python values.              *)

EmptyFrame == [cols |-> <<>>, rows |-> <<>>]

\* the C parser's integer test, for the plain field texts used here
is_integer_text(t) == t # <<>> /\ \A i \in DOMAIN t : t[i] \in DecimalChars

\* read_csv's type inference for column j: empty fields are NaN; a column whose
\* other fields are all integers is int64 (float64 when it has a NaN); else object
column_dtype(f, j) ==
  LET texts == {f.rows[i][j] : i \in DOMAIN f.rows}
  IN IF \A t \in texts : t = <<>> \/ is_integer_text(t)
       THEN IF <<>> \in texts THEN "float64" ELSE "int64"
       ELSE "object"

parse_field(dtype, t) ==
  IF t = <<>> THEN NaN
  ELSE IF dtype = "int64" THEN IntVal(t)
  ELSE IF dtype = "float64" THEN FloatVal(t \o <<".", "0">>)
  ELSE Str(t)

read_csv(f) ==
  [cols |-> f.header,
   rows |-> [i \in DOMAIN f.rows |->
               [j \in DOMAIN f.header |->
                  parse_field(column_dtype(f, j), f.rows[i][j])]]]

\* DataFrame.to_csv(index=False): NaN is written as an empty field
field_text(x) == IF x = NaN THEN <<>> ELSE x.val

to_csv(d) ==
  [header |-> d.cols,
   rows |-> [i \in DOMAIN d.rows |->
               [j \in DOMAIN d.cols |-> field_text(d.rows[i][j])]]]

----------------------------------------------------------------------------
(* Column lookup and the validation plans *)

N_SOFTVEND == <<"S", "O", "F", "T", "V", "E", "N", "D">>
N_State == <<"S", "t", "a", "t", "e">>
N_PCode == <<"P", "C", "o", "d", "e">>
N_Phone == <<"P", "h", "o", "n", "e">>
N_Mobile == <<"M", "o", "b", "i", "l", "e">>
N_Fax == <<"F", "a", "x">>
N_Email == <<"E", "m", "a", "i", "l">>

\* the comparison without strip(): a name with surrounding blanks is missed
get_column_no_strip(d, column_name) ==
  LET hits == {i \in DOMAIN d.cols : upper(d.cols[i]) = upper(column_name)}
  IN IF hits = {} THEN 0 ELSE CHOOSE i \in hits : \A j \in hits : i <= j

\* the position of the first column whose name matches, 0 for ValueError
get_column_case_insensitive(d, column_name) ==
  LET hits == {i \in DOMAIN d.cols : upper(strip(d.cols[i])) = upper(column_name)}
  IN IF hits = {} THEN 0 ELSE CHOOSE i \in hits : \A j \in hits : i <= j

COLUMNS_TO_VALIDATE_MAXSOFT ==
  << [field |-> N_State, fn |-> "validate_state"],
     [field |-> N_PCode, fn |-> "validate_postcode"],
     [field |-> N_Phone, fn |-> "validate_phone"],
     [field |-> N_Mobile, fn |-> "validate_phone"],
     [field |-> N_Fax, fn |-> "validate_phone"],
     [field |-> N_Email, fn |-> "validate_email"] >>

COLUMNS_TO_VALIDATE_RP ==
  << [field |-> N_State, fn |-> "validate_state"],
     [field |-> N_PCode, fn |-> "validate_postcode"] >>

\* col.apply(validate_func) assigned to df[actual_col_name]
assign_validated(d, idx, fn) ==
  [d EXCEPT !.rows = [i \in DOMAIN d.rows |->
                        [d.rows[i] EXCEPT ![idx] = call_validator(fn, d.rows[i][idx])]]]

\* an exception other than ValueError raised by a validator leaves the loop
apply_raises(d, idx, fn) ==
  \E i \in DOMAIN d.rows : call_validator(fn, d.rows[i][idx]).type = "exc"

\* the loop over a plan's items, from item k on; [exc, df]
RECURSIVE validate_columns(_, _, _)
validate_columns(d, plan, k) ==
  IF k > Len(plan)
    THEN [exc |-> "none", df |-> d]
    ELSE LET idx == get_column_case_insensitive(d, plan[k].field)
         IN IF idx = 0
              THEN validate_columns(d, plan, k + 1)
              ELSE IF apply_raises(d, idx, plan[k].fn)
                THEN [exc |-> "AttributeError", df |-> d]
                ELSE validate_columns(assign_validated(d, idx, plan[k].fn), plan, k + 1)

process_rockend_property_iq(d) == validate_columns(d, COLUMNS_TO_VALIDATE_RP, 1)

process_maxsoft(d) == validate_columns(d, COLUMNS_TO_VALIDATE_MAXSOFT, 1)

----------------------------------------------------------------------------
(* Vendor dispatch *)

V_ROCKEND == <<"R", "O", "C", "K", "E", "N", "D">>
V_PROPERTYIQ == <<"P", "R", "O", "P", "E", "R", "T", "Y", "I", "Q">>
V_MAXSOFT == <<"M", "A", "X", "S", "O", "F", "T">>
V_STRATASPHERE == <<"S", "T", "R", "A", "T", "A", "S", "P", "H", "E", "R", "E">>
V_STRATA_PLUS == <<"S", "T", "R", "A", "T", "A", " ", "P", "L", "U", "S">>

Raised(e, d) == [kind |-> "exc", exc |-> e, df |-> d]
ReturnedPath(d) == [kind |-> "path", exc |-> "none", df |-> d]
ReturnedFrame(d) == [kind |-> "df", exc |-> "none", df |-> d]
NoResult == [kind |-> "none", exc |-> "none", df |-> EmptyFrame]

\* the branch taken on the marker, for a frame whose marker is a string
dispatch(d, softvend_upper) ==
  IF softvend_upper \in {V_ROCKEND, V_PROPERTYIQ}
    THEN LET r == process_rockend_property_iq(d)
         IN IF r.exc # "none" THEN Raised(r.exc, r.df) ELSE ReturnedPath(r.df)
  ELSE IF softvend_upper = V_MAXSOFT
    THEN LET r == process_maxsoft(d)
         IN IF r.exc # "none" THEN Raised(r.exc, r.df) ELSE ReturnedPath(r.df)
  ELSE IF softvend_upper \in {V_STRATASPHERE, V_STRATA_PLUS}
    THEN ReturnedFrame(d)
  ELSE ReturnedPath(d)

\* the marker compared as read, without upper()
preprocess_frame_no_upper(d) ==
  LET idx == get_column_case_insensitive(d, N_SOFTVEND)
  IN IF idx = 0 THEN Raised("ValueError", d)
     ELSE IF Len(d.rows) = 0 THEN Raised("IndexError", d)
     ELSE IF ~isinstance_str(d.rows[1][idx]) THEN Raised("AttributeError", d)
     ELSE dispatch(d, strip(d.rows[1][idx].val))

\* preprocess_file after read_csv: [kind, exc, df], where kind "path" stands
\* for the frame written to the processed file whose path is returned, "df"
\* for the frame itself returned, "exc" for an exception
preprocess_frame(d) ==
  LET idx == get_column_case_insensitive(d, N_SOFTVEND)
  IN IF idx = 0 THEN Raised("ValueError", d)
     ELSE IF Len(d.rows) = 0 THEN Raised("IndexError", d)
     ELSE IF ~isinstance_str(d.rows[1][idx]) THEN Raised("AttributeError", d)
     ELSE dispatch(d, upper(strip(d.rows[1][idx].val)))

preprocess_file(f) == preprocess_frame(read_csv(f))

\* what upload_file answers after preprocess_file returned or raised r, when
\* no other request touches the uploads folder: 200 with the processed file,
\* or the generic failure (send_file on a frame raises TypeError)
EmptyCsv == [header |-> <<>>, rows |-> <<>>]
Failure == [status |-> 500, body |-> EmptyCsv]
NoResponse == [status |-> 0, body |-> EmptyCsv]

respond(r) ==
  IF r.kind = "path" THEN [status |-> 200, body |-> to_csv(r.df)] ELSE Failure

----------------------------------------------------------------------------
(* Cell values handed to the validators: built from pieces *)

MaxPieces == 3

RECURSIVE Rep(_, _)
Rep(c, n) == IF n = 0 THEN <<>> ELSE <<c>> \o Rep(c, n - 1)

LenDigitRun == 12
LenLetterRun == 125

Pieces ==
  { <<" ">>, <<"\t">>, <<"2">>, <<"2", "0", "0">>, <<SUP2>>,
    <<"n", "s", "w">>, <<"V", "i", "c">>,
    <<"@">>, <<".">>, <<",">>, <<"x", "@", "y", ".", "z">>,
    Rep("7", LenDigitRun), Rep("q", LenLetterRun) }

CellInit ==
  /\ cell \in {EmptyStr, NaN, Int2000}
  /\ npieces = 0
  /\ vpc = "build"
  /\ vfn = "none"
  /\ vout = EmptyStr
  /\ vout2 = EmptyStr

\* the cell's text grows by one piece
AppendPiece ==
  /\ vpc = "build"
  /\ isinstance_str(cell)
  /\ npieces < MaxPieces
  /\ \E p \in Pieces : cell' = Str(cell.val \o p)
  /\ npieces' = npieces + 1
  /\ UNCHANGED <<vpc, vfn, vout, vout2>>
  /\ UNCHANGED <<tableVars, uploadVars>>

CallValidateState ==
  /\ vpc = "build"
  /\ vfn' = "validate_state"
  /\ vout' = validate_state(cell)
  /\ vpc' = "once"
  /\ UNCHANGED <<cell, npieces, vout2>>
  /\ UNCHANGED <<tableVars, uploadVars>>

CallValidatePostcode ==
  /\ vpc = "build"
  /\ vfn' = "validate_postcode"
  /\ vout' = validate_postcode(cell)
  /\ vpc' = "once"
  /\ UNCHANGED <<cell, npieces, vout2>>
  /\ UNCHANGED <<tableVars, uploadVars>>

CallValidatePhone ==
  /\ vpc = "build"
  /\ vfn' = "validate_phone"
  /\ vout' = validate_phone(cell)
  /\ vpc' = "once"
  /\ UNCHANGED <<cell, npieces, vout2>>
  /\ UNCHANGED <<tableVars, uploadVars>>

CallValidateEmail ==
  /\ vpc = "build"
  /\ vfn' = "validate_email"
  /\ vout' = validate_email(cell)
  /\ vpc' = "once"
  /\ UNCHANGED <<cell, npieces, vout2>>
  /\ UNCHANGED <<tableVars, uploadVars>>

\* the same validator applied to its own result (a second pass over the cell)
Revalidate ==
  /\ vpc = "once"
  /\ vout.type # "exc"
  /\ vout2' = call_validator(vfn, vout)
  /\ vpc' = "twice"
  /\ UNCHANGED <<cell, npieces, vfn, vout>>
  /\ UNCHANGED <<tableVars, uploadVars>>

CellNext ==
  \/ AppendPiece
  \/ CallValidateState
  \/ CallValidatePostcode
  \/ CallValidatePhone
  \/ CallValidateEmail
  \/ Revalidate

TableIdle ==
  /\ csv = EmptyCsv
  /\ df = EmptyFrame
  /\ tpc = "idle"
  /\ res = NoResult
  /\ response = NoResponse
  /\ res2 = NoResult

UploadIdle ==
  /\ fs = <<>>
  /\ clock = 0
  /\ reqs = <<>>

InitCell == CellInit /\ TableIdle /\ UploadIdle

SpecCell == InitCell /\ [][CellNext]_vars

----------------------------------------------------------------------------
(* One upload at a time: the uploaded CSV files and the steps of a request *)

MaxCols == 3
MaxRows == 2

ColPool ==
  { <<" ", "S", "o", "f", "t", "V", "e", "n", "d", " ">>,
    <<"S", "t", "a", "t", "e">>,
    <<" ", "S", "T", "A", "T", "E", " ">>,
    <<"p", "c", "o", "d", "e">>,
    <<"P", "h", "o", "n", "e">>,
    <<"M", "O", "B", "I", "L", "E">>,
    <<"F", "a", "x", " ">>,
    <<"E", "m", "a", "i", "l">> }

\* field texts of the marker column, by row template
MarkerPool ==
  << <<" ", "r", "o", "c", "k", "e", "n", "d", " ">>,
     <<"P", "r", "o", "p", "e", "r", "t", "y", "I", "Q">>,
     <<"M", "a", "x", "s", "o", "f", "t">>,
     <<"S", "T", "R", "A", "T", "A", "S", "P", "H", "E", "R", "E">>,
     <<"S", "t", "r", "a", "t", "a", " ", "P", "l", "u", "s">>,
     <<"O", "T", "H", "E", "R">>,
     <<>>,
     <<"2", "0", "0", "0">> >>

\* field texts of the other columns
DataPool ==
  << <<" ", "n", "s", "w", " ">>,
     <<"2", "0", "0", "0">>,
     <<"x", "@", "y", ".", "z">>,
     <<>>,
     <<"0", "4", " ", "1", "2">> >>

FirstRowTemplates == DOMAIN MarkerPool
LaterRowTemplates == {3, 7}

Headers ==
  {h \in UNION {[1..n -> ColPool] : n \in 1..MaxCols} :
     \A i, j \in DOMAIN h : i # j => h[i] # h[j]}

RowTemplates ==
  {t \in UNION {[1..n -> FirstRowTemplates] : n \in 0..MaxRows} :
     \A i \in DOMAIN t : i > 1 => t[i] \in LaterRowTemplates}

MakeCsv(h, t) ==
  [header |-> h,
   rows |-> [i \in DOMAIN t |->
               [j \in DOMAIN h |->
                  IF upper(strip(h[j])) = N_SOFTVEND
                    THEN MarkerPool[t[i]]
                    ELSE DataPool[((t[i] + j) % Len(DataPool)) + 1]]]]

TableInit ==
  /\ \E h \in Headers, t \in RowTemplates : csv = MakeCsv(h, t)
  /\ df = EmptyFrame
  /\ tpc = "start"
  /\ res = NoResult
  /\ response = NoResponse
  /\ res2 = NoResult

\* preprocess_file on the uploaded file
PreprocessFile ==
  /\ tpc = "start"
  /\ df' = read_csv(csv)
  /\ res' = preprocess_file(csv)
  /\ tpc' = "processed"
  /\ UNCHANGED <<csv, response, res2>>
  /\ UNCHANGED <<cellVars, uploadVars>>

\* the rest of upload_file: the processed file sent, or the failure response
SendResponse ==
  /\ tpc = "processed"
  /\ response' = respond(res)
  /\ tpc' = "responded"
  /\ UNCHANGED <<csv, df, res, res2>>
  /\ UNCHANGED <<cellVars, uploadVars>>

\* the same dispatch applied to the frame a first pass produced
SecondPass ==
  /\ tpc = "processed"
  /\ res.kind = "path"
  /\ res2' = preprocess_frame(res.df)
  /\ tpc' = "second"
  /\ UNCHANGED <<csv, df, res, response>>
  /\ UNCHANGED <<cellVars, uploadVars>>

TableNext ==
  \/ PreprocessFile
  \/ SendResponse
  \/ SecondPass

CellIdle ==
  /\ cell = EmptyStr
  /\ npieces = 0
  /\ vpc = "idle"
  /\ vfn = "none"
  /\ vout = EmptyStr
  /\ vout2 = EmptyStr

InitTable == TableInit /\ CellIdle /\ UploadIdle

SpecTable == InitTable /\ [][TableNext]_vars

----------------------------------------------------------------------------
(* Concurrent uploads: requests served by threads sharing the uploads      *)
(* folder.  A step is one access to the folder (with the computation on    *)
(* the request's own data that follows it).                                *)

NReq == 2
Requests == 1..NReq
RETENTION_LIMIT == 3

\* upload names (already secure file names) and the processed name of each
UploadNames == {"a.csv", "b.csv"}
processed_name(n) ==
  CASE n = "a.csv" -> "a_processed.csv"
    [] n = "b.csv" -> "b_processed.csv"
\* processed files that earlier uploads (x.csv, y.csv, z.csv) left behind
OldProcessed == <<"x_processed.csv", "y_processed.csv", "z_processed.csv">>
ProcessedNames == {processed_name(n) : n \in UploadNames} \cup Range(OldProcessed)
FileNames == UploadNames \cup ProcessedNames

\* the tables uploaded: one per vendor plan, each with a cell its plan changes
CsvMaxsoft ==
  [header |-> << N_SOFTVEND, N_State >>,
   rows |-> << << V_MAXSOFT, <<" ", "n", "s", "w", " ">> >> >>]
CsvRockend ==
  [header |-> << N_SOFTVEND, N_PCode >>,
   rows |-> << << V_ROCKEND, <<"2", "0", "0">> >> >>]
UploadedCsv(r) == IF r % 2 = 1 THEN CsvMaxsoft ELSE CsvRockend

Absent == [present |-> FALSE, content |-> EmptyCsv, ctime |-> 0]
File(c, t) == [present |-> TRUE, content |-> c, ctime |-> t]

NewRequest ==
  [pc |-> "start", name |-> "none", result |-> NoResult,
   files |-> <<>>, response |-> NoResponse]

\* the folder as earlier uploads, served one after the other, left it: at
\* most RETENTION_LIMIT processed files and no upload
UploadInit ==
  /\ \E k \in 0..RETENTION_LIMIT :
       /\ fs = [n \in FileNames |->
                  IF \E i \in 1..k : OldProcessed[i] = n
                    THEN File(to_csv(preprocess_file(CsvRockend).df),
                              CHOOSE i \in 1..k : OldProcessed[i] = n)
                    ELSE Absent]
       /\ clock = k
  /\ reqs = [r \in Requests |-> NewRequest]

\* the names of a set of files, oldest creation time first
RECURSIVE sorted_by_ctime(_)
sorted_by_ctime(names) ==
  IF names = {} THEN <<>>
  ELSE LET oldest == CHOOSE n \in names : \A m \in names : fs[n].ctime <= fs[m].ctime
       IN <<oldest>> \o sorted_by_ctime(names \ {oldest})

\* file.save(file_path): the upload written under its name
SaveUpload(r) ==
  /\ reqs[r].pc = "start"
  /\ \E n \in UploadNames :
       /\ fs' = [fs EXCEPT ![n] = File(UploadedCsv(r), clock + 1)]
       /\ reqs' = [reqs EXCEPT ![r].pc = "read", ![r].name = n]
  /\ clock' = clock + 1
  /\ UNCHANGED <<cellVars, tableVars>>

\* preprocess_file up to the dispatch: read_csv of whatever the path holds now
ReadAndDispatch(r) ==
  /\ reqs[r].pc = "read"
  /\ LET f == fs[reqs[r].name]
         out == IF f.present THEN preprocess_file(f.content)
                ELSE Raised("FileNotFoundError", EmptyFrame)
     IN reqs' = [reqs EXCEPT ![r].result = out,
                             ![r].pc = IF out.kind = "path" THEN "write"
                                       ELSE IF out.kind = "df" THEN "list"
                                       ELSE "except"]
  /\ UNCHANGED <<fs, clock>>
  /\ UNCHANGED <<cellVars, tableVars>>

\* df.to_csv(processed_file_path, index=False)
WriteProcessed(r) ==
  /\ reqs[r].pc = "write"
  /\ fs' = [fs EXCEPT ![processed_name(reqs[r].name)] =
                        File(to_csv(reqs[r].result.df), clock + 1)]
  /\ clock' = clock + 1
  /\ reqs' = [reqs EXCEPT ![r].pc = "list"]
  /\ UNCHANGED <<cellVars, tableVars>>

\* clean_up_processed_files: os.listdir, filtered on the suffix (kept in some
\* order; the sort that follows fixes it)
ListProcessed(r) ==
  /\ reqs[r].pc = "list"
  /\ reqs' = [reqs EXCEPT
       ![r].files = sorted_by_ctime({n \in ProcessedNames : fs[n].present}),
       ![r].pc = "sort"]
  /\ UNCHANGED <<fs, clock>>
  /\ UNCHANGED <<cellVars, tableVars>>

\* files.sort(key=getctime): getctime of a file removed meanwhile raises
SortByCtime(r) ==
  /\ reqs[r].pc = "sort"
  /\ LET listed == Range(reqs[r].files)
     IN IF \E n \in listed : ~fs[n].present
          THEN reqs' = [reqs EXCEPT ![r].pc = "except"]
          ELSE reqs' = [reqs EXCEPT ![r].files = sorted_by_ctime(listed),
                                    ![r].pc = "remove"]
  /\ UNCHANGED <<fs, clock>>
  /\ UNCHANGED <<cellVars, tableVars>>

\* one turn of the while loop: os.remove of the oldest listed file
RemoveOldest(r) ==
  /\ reqs[r].pc = "remove"
  /\ Len(reqs[r].files) > RETENTION_LIMIT
  /\ LET oldest_file == Head(reqs[r].files)
     IN IF fs[oldest_file].present
          THEN /\ fs' = [fs EXCEPT ![oldest_file] = Absent]
               /\ reqs' = [reqs EXCEPT ![r].files = Tail(reqs[r].files)]
          ELSE /\ fs' = fs
               /\ reqs' = [reqs EXCEPT ![r].pc = "except"]
  /\ UNCHANGED clock
  /\ UNCHANGED <<cellVars, tableVars>>

\* the loop left
CleanUpDone(r) ==
  /\ reqs[r].pc = "remove"
  /\ Len(reqs[r].files) <= RETENTION_LIMIT
  /\ reqs' = [reqs EXCEPT ![r].pc = "send"]
  /\ UNCHANGED <<fs, clock>>
  /\ UNCHANGED <<cellVars, tableVars>>

\* send_file(processed_file, ...): a frame has no basename (TypeError); a
\* path is opened as it is now
SendFile(r) ==
  /\ reqs[r].pc = "send"
  /\ LET f == fs[processed_name(reqs[r].name)]
     IN IF reqs[r].result.kind = "path" /\ f.present
          THEN reqs' = [reqs EXCEPT ![r].response = [status |-> 200, body |-> f.content],
                                    ![r].pc = "finally"]
          ELSE reqs' = [reqs EXCEPT ![r].pc = "except"]
  /\ UNCHANGED <<fs, clock>>
  /\ UNCHANGED <<cellVars, tableVars>>

\* except Exception: the generic failure response
HandleException(r) ==
  /\ reqs[r].pc = "except"
  /\ reqs' = [reqs EXCEPT ![r].response = Failure, ![r].pc = "finally"]
  /\ UNCHANGED <<fs, clock>>
  /\ UNCHANGED <<cellVars, tableVars>>

\* finally: os.path.exists(file_path)
FinallyExists(r) ==
  /\ reqs[r].pc = "finally"
  /\ reqs' = [reqs EXCEPT ![r].pc = IF fs[reqs[r].name].present
                                      THEN "finally_remove" ELSE "done"]
  /\ UNCHANGED <<fs, clock>>
  /\ UNCHANGED <<cellVars, tableVars>>

\* finally: os.remove(file_path); raising here replaces the response by a 500
FinallyRemove(r) ==
  /\ reqs[r].pc = "finally_remove"
  /\ IF fs[reqs[r].name].present
       THEN /\ fs' = [fs EXCEPT ![reqs[r].name] = Absent]
            /\ reqs' = [reqs EXCEPT ![r].pc = "done"]
       ELSE /\ fs' = fs
            /\ reqs' = [reqs EXCEPT ![r].response = Failure, ![r].pc = "done"]
  /\ UNCHANGED clock
  /\ UNCHANGED <<cellVars, tableVars>>

UploadNext ==
  \E r \in Requests :
    \/ SaveUpload(r)
    \/ ReadAndDispatch(r)
    \/ WriteProcessed(r)
    \/ ListProcessed(r)
    \/ SortByCtime(r)
    \/ RemoveOldest(r)
    \/ CleanUpDone(r)
    \/ SendFile(r)
    \/ HandleException(r)
    \/ FinallyExists(r)
    \/ FinallyRemove(r)

InitUpload == UploadInit /\ CellIdle /\ TableIdle

SpecUpload == InitUpload /\ [][UploadNext]_vars

----------------------------------------------------------------------------
(* Properties of the validators, under SpecCell *)

\* the text of the cell, trimmed
Trimmed == strip(cell.val)

\* the part of s before its first comma (all of s when it has none)
FirstSegment(s) ==
  LET commas == {i \in DOMAIN s : s[i] = ","}
  IN IF commas = {} THEN s
     ELSE SubSeq(s, 1, (CHOOSE k \in commas : \A j \in commas : k <= j) - 1)

Validated(fn) == vpc \in {"once", "twice"} /\ vfn = fn

\* C5: every validator returns a string for every input value and never
\* raises; for every non-string input (NaN, a number) it returns the empty string.
C5_ValidatorsTotal ==
  vpc \in {"once", "twice"} =>
    /\ vout.type = "str"
    /\ (~isinstance_str(cell) => vout = EmptyStr)

C5_Witness ==
  /\ Validated("validate_email")
  /\ cell = NaN
  /\ vout = EmptyStr

\* C7 as stated: for every string of at most 15 characters after trimming and
\* removing spaces, validate_phone returns the trimmed input when the
\* space-stripped form is alphanumeric and the empty string otherwise.
C7_AsClaimed ==
  (Validated("validate_phone") /\ isinstance_str(cell)
     /\ Len(remove_spaces(Trimmed)) <= PHONE_MAX_LEN) =>
    vout = IF isalnum(remove_spaces(Trimmed)) THEN Str(Trimmed) ELSE EmptyStr

\* C7 amended: the length limit of 15 applies to the trimmed input with its
\* interior spaces counted; within it the result is the trimmed input when the
\* space-stripped form is alphanumeric and the empty string otherwise, and a
\* trimmed input longer than 15 characters yields the empty string.
C7_PhoneTrimmedLength ==
  (Validated("validate_phone") /\ isinstance_str(cell)) =>
    /\ Len(Trimmed) <= PHONE_MAX_LEN =>
         vout = IF isalnum(remove_spaces(Trimmed)) THEN Str(Trimmed) ELSE EmptyStr
    /\ Len(Trimmed) > PHONE_MAX_LEN => vout = EmptyStr

C7_Witness ==
  /\ Validated("validate_phone")
  /\ isinstance_str(cell)
  /\ Len(Trimmed) = PHONE_MAX_LEN
  /\ Len(cell.val) > Len(Trimmed)
  /\ vout = Str(Trimmed)

\* C8: for every string, validate_postcode returns the trimmed input when it
\* is exactly 4 characters, each one of 0-9, and the empty string otherwise.
C8_PostcodeDecimal ==
  (Validated("validate_postcode") /\ isinstance_str(cell)) =>
    vout = IF Len(Trimmed) = POSTCODE_LEN
                /\ \A i \in DOMAIN Trimmed : Trimmed[i] \in DecimalChars
             THEN Str(Trimmed)
             ELSE EmptyStr

\* C10: for every string, validate_email returns the trimmed first
\* comma-separated segment when that segment has at most 130 characters, an
\* "@", a "." and no space, and the empty string otherwise.
C10_EmailFirstSegment ==
  (Validated("validate_email") /\ isinstance_str(cell)) =>
    LET seg == strip(FirstSegment(cell.val))
    IN vout = IF Len(seg) <= EMAIL_MAX_LEN
                   /\ (\E i \in DOMAIN seg : seg[i] = "@")
                   /\ (\E i \in DOMAIN seg : seg[i] = ".")
                   /\ (\A i \in DOMAIN seg : seg[i] # " ")
                THEN Str(seg)
                ELSE EmptyStr

C10_Witness ==
  /\ Validated("validate_email")
  /\ isinstance_str(cell)
  /\ \E i \in DOMAIN cell.val : cell.val[i] = ","
  /\ Len(vout.val) = EMAIL_MAX_LEN
  /\ vout = Str(strip(FirstSegment(cell.val)))

\* every validator maps its own result to itself
CellIdempotent == vpc = "twice" => vout2 = vout

----------------------------------------------------------------------------
(* Properties of dispatch and plan application, under SpecTable *)

\* a column name matches a logical field name: trimmed, compared ignoring case
Matches(name, field) == upper(strip(name)) = upper(field)

NarrowFields == {N_State, N_PCode}
BroadFields == {N_State, N_PCode, N_Phone, N_Mobile, N_Fax, N_Email}

\* the validator the plans give a field
ValidatorOf(field, x) ==
  IF field = N_State THEN validate_state(x)
  ELSE IF field = N_PCode THEN validate_postcode(x)
  ELSE IF field = N_Email THEN validate_email(x)
  ELSE validate_phone(x)

\* the column names as the lookup compares them
NormalisedNames(d) == [j \in DOMAIN d.cols |-> upper(strip(d.cols[j]))]

MatchingCols(d, field) == {j \in DOMAIN d.cols : Matches(d.cols[j], field)}
FirstMatch(d, field, j) ==
  j \in MatchingCols(d, field) /\ \A k \in MatchingCols(d, field) : j <= k

\* for each column, the field of the plan it is the first match of (<<>>: none)
FirstMatchField(d, fields) ==
  LET norm == NormalisedNames(d)
  IN [j \in DOMAIN d.cols |->
        IF /\ \E f \in fields : norm[j] = upper(f)
           /\ \A k \in 1..(j - 1) : norm[k] # norm[j]
          THEN CHOOSE f \in fields : norm[j] = upper(f)
          ELSE <<>>]

\* for each column, the field of the plan its name matches (<<>>: none)
AnyMatchField(d, fields) ==
  LET norm == NormalisedNames(d)
  IN [j \in DOMAIN d.cols |->
        IF \E f \in fields : norm[j] = upper(f)
          THEN CHOOSE f \in fields : norm[j] = upper(f)
          ELSE <<>>]

\* d with the columns that field_of gives a field validated by that field's
\* validator, cell by cell, and everything else as it is
ColumnsValidated(d, field_of) ==
  [cols |-> d.cols,
   rows |-> [i \in DOMAIN d.rows |->
               [j \in DOMAIN d.cols |->
                  IF field_of[j] # <<>>
                    THEN ValidatorOf(field_of[j], d.rows[i][j])
                    ELSE d.rows[i][j]]]]

FirstMatchValidated(d, fields) == ColumnsValidated(d, FirstMatchField(d, fields))

\* preprocess_file has just returned or raised (df and res stay as they are then)
Processed == tpc = "processed"
HasMarkerColumn == MatchingCols(df, N_SOFTVEND) # {}

\* the first row's value in the first marker column
FirstMarkerValue ==
  df.rows[1][CHOOSE j \in MatchingCols(df, N_SOFTVEND) : FirstMatch(df, N_SOFTVEND, j)]

NoMarker == <<"no marker">>

\* the first row's marker, trimmed and uppercased; NoMarker when there is no
\* marker column, no row, or no string in the cell
MarkerText ==
  IF HasMarkerColumn /\ Len(df.rows) >= 1 /\ isinstance_str(FirstMarkerValue)
    THEN upper(strip(FirstMarkerValue.val))
    ELSE NoMarker

MarkerIn(vs) == MarkerText \in vs

\* C1: the plan depends only on the first row's marker, trimmed and
\* uppercased: ROCKEND and PROPERTYIQ get the narrow plan, MAXSOFT the broad
\* plan, and with any other marker value no cell of the table changes.
C1_DispatchByMarker ==
  Processed =>
    LET marker == MarkerText
    IN /\ marker \in {V_ROCKEND, V_PROPERTYIQ} =>
            res.kind = "path" /\ res.df = FirstMatchValidated(df, NarrowFields)
       /\ marker = V_MAXSOFT =>
            res.kind = "path" /\ res.df = FirstMatchValidated(df, BroadFields)
       /\ marker \notin {V_ROCKEND, V_PROPERTYIQ, V_MAXSOFT} => res.df = df

C1_Witness ==
  /\ tpc = "processed"
  /\ MarkerIn({V_ROCKEND})
  /\ Len(df.rows) = 2
  /\ upper(strip(csv.rows[2][CHOOSE j \in MatchingCols(df, N_SOFTVEND) : TRUE])) = V_MAXSOFT
  /\ MatchingCols(df, N_Phone) # {}
  /\ res.kind = "path"
  /\ res.df # df

\* C2 as stated: under the broad plan every column whose name matches one of
\* the six fields holds the validator's results, and nothing else changes.
C2_AsClaimed ==
  (Processed /\ MarkerIn({V_MAXSOFT})) =>
    /\ res.kind = "path"
    /\ res.df = ColumnsValidated(df, AnyMatchField(df, BroadFields))

\* C2 amended: for each of the six fields only the first column (in column
\* order) whose name matches it holds the validator's results; fields with no
\* matching column are skipped without error; every other column, further
\* columns matching the same field included, the row count and the row order
\* are unchanged.
C2_BroadPlanFirstMatch ==
  (Processed /\ MarkerIn({V_MAXSOFT})) =>
    /\ res.kind = "path"
    /\ res.df.cols = df.cols
    /\ Len(res.df.rows) = Len(df.rows)
    /\ res.df = ColumnsValidated(df, FirstMatchField(df, BroadFields))

C2_Witness ==
  /\ tpc = "processed"
  /\ MarkerIn({V_MAXSOFT})
  /\ Len(df.rows) = 2
  /\ Cardinality(MatchingCols(df, N_State)) = 2
  /\ MatchingCols(df, N_PCode) = {}
  /\ res.kind = "path"
  /\ \E i \in DOMAIN df.rows, j \in MatchingCols(df, N_State) :
       /\ res.df.rows[i][j] # df.rows[i][j]
       /\ res.df.rows[i][j] # EmptyStr

\* C3: with the marker STRATASPHERE or STRATA PLUS the upload succeeds and
\* the response is the uploaded table unchanged.
C3_StrataPassThrough ==
  (tpc = "responded" /\ MarkerIn({V_STRATASPHERE, V_STRATA_PLUS})) =>
    /\ response.status = 200
    /\ response.body = csv

\* C4: preprocess_file raises exactly when no column matches SOFTVEND; with
\* the marker column present it yields a table, whatever the first row's
\* marker cell holds and however many rows there are.
C4_ErrorIffMarkerMissing ==
  Processed => (res.kind = "exc" <=> ~HasMarkerColumn)

\* C6: applying the plan to the result of a first application changes nothing.
C6_PlanIdempotent ==
  tpc = "second" => res2 = res

C6_Witness ==
  /\ tpc = "second"
  /\ MarkerIn({V_MAXSOFT})
  /\ MatchingCols(df, N_Phone) # {}
  /\ res.df # df
  /\ res2.df = res.df

----------------------------------------------------------------------------
(* Properties of concurrent uploads, under SpecUpload *)

\* the response request r gets when it is the only request
SoloResponse(r) == respond(preprocess_file(UploadedCsv(r)))

\* C9: whatever the interleaving, every finished request holds the response
\* it would get alone: the cleaned version of the table it uploaded.
C9_UploadsIndependent ==
  \A r \in Requests : reqs[r].pc = "done" => reqs[r].response = SoloResponse(r)

====
